---- MODULE Spec2Model ----
(***************************************************************************)
(* Model of pyqso/calendar.py: the Calendar dialog handler.                *)
(*                                                                         *)
(* Calendar.__init__ loads "calendar_dialog" from the glade file into the  *)
(* Gtk.Builder, looks up the dialog and the calendar widget and shows the  *)
(* dialog.  The date property reads (year, month, day) from the widget     *)
(* (month counted from 0) and formats it as a string.                      *)
(*                                                                         *)
(* Python strings are modelled as sequences of one-character strings.      *)
(* Python values that may be either an int or a str (the locals month and  *)
(* day in date) are tagged records [type, val].                            *)
(***************************************************************************)
EXTENDS Integers, Sequences, FiniteSets

VARIABLES
    pc,         \* position of Calendar.__init__: the next statement to run
    resource,   \* what the glade file on disk provides to the builder
    objects,    \* names of the objects the builder has instantiated
    dialog,     \* self.dialog
    calendar,   \* self.calendar
    visible,    \* whether the dialog (with its children) is shown
    selection,  \* the Gtk.Calendar widget's selected (year, month, day)
    ret,        \* outcome of the latest evaluation of the date property
    prevRet,    \* outcome of the evaluation before the latest one
    calls       \* evaluations of date since the selection last changed

vars == <<pc, resource, objects, dialog, calendar, visible, selection,
          ret, prevRet, calls>>

\* Bound on the number of date evaluations counted between two selection changes.
MaxCalls == 3

----------------------------------------------------------------------------
\* Python values

None == "None"
Unbound == "unbound"   \* attribute not assigned yet

PyInt(n) == [type |-> "int", val |-> n]
PyStr(s) == [type |-> "str", val |-> s]

DigitChars == <<"0", "1", "2", "3", "4", "5", "6", "7", "8", "9">>
Digit(d) == DigitChars[d + 1]

\* Decimal digits of a natural number, most significant first.
RECURSIVE NatStr(_)
NatStr(n) == IF n < 10 THEN <<Digit(n)>>
             ELSE NatStr(n \div 10) \o <<Digit(n % 10)>>

\* str() of a Python int.
IntStr(n) == IF n < 0 THEN <<"-">> \o NatStr(-n) ELSE NatStr(n)

\* str() of a Python value: decimal form of an int, identity on a str.
str(v) == IF v.type = "int" THEN IntStr(v.val) ELSE v.val

----------------------------------------------------------------------------
\* The calendar widget (Gtk.Calendar), as seen through get_date()

Months == 0 .. 11      \* months start from an index of 0
Days == 0 .. 31        \* 0: no day selected

\* Years the widget is driven to when date is studied on its own.
Years == {0, 7, 999, 1000, 1999, 2005, 2017, 2020, 9999, 10000}

Selections == [year : Years, month : Months, day : Days]

\* Selections the user moves between in the dialog's life cycle.
UserSelections == [year : {999, 2005, 2017}, month : {2, 8, 9}, day : {5, 9, 10}]

get_date(sel) == <<sel.year, sel.month, sel.day>>

----------------------------------------------------------------------------
\* The date property, line by line
\* Variant: the padded branch formats the 0-indexed month.
dateNoIncrement(sel) ==
    LET t == get_date(sel)
        month == IF t[2] + 1 < 10 THEN PyStr(<<"0">> \o str(PyInt(t[2])))
                 ELSE PyInt(t[2] + 1)
        day == IF t[3] < 10 THEN PyStr(<<"0">> \o str(PyInt(t[3])))
               ELSE PyInt(t[3])
    IN  str(PyInt(t[1])) \o str(month) \o str(day)

\* Variant: the padding test uses month instead of month + 1.
dateMonthTest(sel) ==
    LET t == get_date(sel)
        month == IF t[2] < 10 THEN PyStr(<<"0">> \o str(PyInt(t[2] + 1)))
                 ELSE PyInt(t[2] + 1)
        day == IF t[3] < 10 THEN PyStr(<<"0">> \o str(PyInt(t[3])))
               ELSE PyInt(t[3])
    IN  str(PyInt(t[1])) \o str(month) \o str(day)

\* Variant: the day is only padded when the month was padded.
dateDayTest(sel) ==
    LET t == get_date(sel)
        month == IF t[2] + 1 < 10 THEN PyStr(<<"0">> \o str(PyInt(t[2] + 1)))
                 ELSE PyInt(t[2] + 1)
        day == IF t[3] < 10 /\ t[2] + 1 < 10 THEN PyStr(<<"0">> \o str(PyInt(t[3])))
               ELSE PyInt(t[3])
    IN  str(PyInt(t[1])) \o str(month) \o str(day)

date(sel) ==
    LET t == get_date(sel)
        month == IF t[2] + 1 < 10 THEN PyStr(<<"0">> \o str(PyInt(t[2] + 1)))
                 ELSE PyInt(t[2] + 1)
        day == IF t[3] < 10 THEN PyStr(<<"0">> \o str(PyInt(t[3])))
               ELSE PyInt(t[3])
    IN  str(PyInt(t[1])) \o str(month) \o str(day)

\* Outcomes of evaluating the property
NoCall == [kind |-> "none", val |-> <<>>]
Returned(s) == [kind |-> "str", val |-> s]
Raised == [kind |-> "raise", val |-> <<>>]

----------------------------------------------------------------------------
\* The builder (Gtk.Builder) and the glade file

Resources == {"valid", "missing", "malformed", "no_dialog", "no_calendar"}

\* Object ids instantiated by loading the subtree of "calendar_dialog".
Subtree(res) == CASE res = "valid" -> {"calendar_dialog", "calendar"}
                  [] res = "no_calendar" -> {"calendar_dialog"}
                  [] OTHER -> {}

\* add_objects_from_file raises when the file cannot be read or parsed.
LoadRaises(res) == res \in {"missing", "malformed"}

\* The load is not transactional: a file whose parse error comes after some
\* of the subtree has been read leaves the objects built so far in the
\* builder.  A file that cannot be read at all leaves none.
PartialLoads(res) == IF res = "malformed"
                     THEN SUBSET {"calendar_dialog", "calendar"}
                     ELSE {{}}

\* Variant: the lookup never finds the object.
get_objectNone(objs, name) == None

get_object(objs, name) == IF name \in objs THEN name ELSE None

----------------------------------------------------------------------------
\* Calendar.__init__

Init ==
    /\ pc = "load"
    /\ resource \in Resources
    /\ objects = {}
    /\ dialog = Unbound
    /\ calendar = Unbound
    /\ visible = FALSE
    /\ selection \in UserSelections
    /\ ret = NoCall
    /\ prevRet = NoCall
    /\ calls = 0

\* self.builder.add_objects_from_file(..., ("calendar_dialog",))
Load ==
    /\ pc = "load"
    /\ IF LoadRaises(resource)
       THEN /\ pc' = "failed"
            /\ \E built \in PartialLoads(resource) : objects' = objects \cup built
       ELSE /\ pc' = "get_dialog"
            /\ objects' = objects \cup Subtree(resource)
    /\ UNCHANGED <<resource, dialog, calendar, visible, selection, ret, prevRet, calls>>

\* self.dialog = self.builder.get_object("calendar_dialog")
GetDialog ==
    /\ pc = "get_dialog"
    /\ dialog' = get_object(objects, "calendar_dialog")
    /\ pc' = "get_calendar"
    /\ UNCHANGED <<resource, objects, calendar, visible, selection, ret, prevRet, calls>>

\* self.calendar = self.builder.get_object("calendar")
GetCalendar ==
    /\ pc = "get_calendar"
    /\ calendar' = get_object(objects, "calendar")
    /\ pc' = "show"
    /\ UNCHANGED <<resource, objects, dialog, visible, selection, ret, prevRet, calls>>

\* self.dialog.show_all(); return
ShowAll ==
    /\ pc = "show"
    /\ IF dialog = None
       THEN pc' = "failed" /\ UNCHANGED visible
       ELSE pc' = "ready" /\ visible' = TRUE
    /\ UNCHANGED <<resource, objects, dialog, calendar, selection, ret, prevRet, calls>>

----------------------------------------------------------------------------
\* The date property and the user's changes of the selection

\* Variant: the evaluation writes a day back to the widget.
DateQueryAdvancing ==
    /\ pc = "ready"
    /\ calls < MaxCalls
    /\ ret' = IF calendar = None THEN Raised ELSE Returned(date(selection))
    /\ prevRet' = ret
    /\ calls' = calls + 1
    /\ selection' = [selection EXCEPT !.day = IF @ = 9 THEN 10 ELSE 9]
    /\ UNCHANGED <<pc, resource, objects, dialog, calendar, visible>>

\* Variant: the evaluation hides the dialog.
DateQueryHiding ==
    /\ pc = "ready"
    /\ calls < MaxCalls
    /\ ret' = IF calendar = None THEN Raised ELSE Returned(date(selection))
    /\ prevRet' = ret
    /\ calls' = calls + 1
    /\ visible' = FALSE
    /\ UNCHANGED <<pc, resource, objects, dialog, calendar, selection>>

\* Variant: the evaluation reuses the string it returned before.
DateQueryCached ==
    /\ pc = "ready"
    /\ calls < MaxCalls
    /\ ret' = IF calendar = None THEN Raised
              ELSE IF ret.kind = "str" THEN ret
              ELSE Returned(date(selection))
    /\ prevRet' = ret
    /\ calls' = calls + 1
    /\ UNCHANGED <<pc, resource, objects, dialog, calendar, visible, selection>>

\* Evaluation of Calendar.date on a constructed instance.
DateQuery ==
    /\ pc = "ready"
    /\ calls < MaxCalls
    /\ ret' = IF calendar = None THEN Raised ELSE Returned(date(selection))
    /\ prevRet' = ret
    /\ calls' = calls + 1
    /\ UNCHANGED <<pc, resource, objects, dialog, calendar, visible, selection>>

\* The user picks another date in the shown calendar widget.
SelectionChange ==
    /\ pc = "ready"
    /\ "calendar" \in objects
    /\ \E s \in UserSelections :
         /\ s # selection
         /\ selection' = s
    /\ calls' = 0
    /\ UNCHANGED <<pc, resource, objects, dialog, calendar, visible, ret, prevRet>>

Next == Load \/ GetDialog \/ GetCalendar \/ ShowAll \/ DateQuery \/ SelectionChange

Spec == Init /\ [][Next]_vars

----------------------------------------------------------------------------
\* The date property on its own: a constructed instance, any selection

InitDate ==
    /\ pc = "ready"
    /\ resource = "valid"
    /\ objects = Subtree("valid")
    /\ dialog = get_object(objects, "calendar_dialog")
    /\ calendar = get_object(objects, "calendar")
    /\ visible = TRUE
    /\ selection \in Selections
    /\ ret = NoCall
    /\ prevRet = NoCall
    /\ calls = 0

NextDate == DateQuery

SpecDate == InitDate /\ [][NextDate]_vars

----------------------------------------------------------------------------
\* Reference formatting used by the properties

TwoDigits(n) == <<Digit(n \div 10), Digit(n % 10)>>

\* Decimal year, then month (counted from 1) and day on two digits each.
YYYYMMDD(sel) == IntStr(sel.year) \o TwoDigits(sel.month + 1) \o TwoDigits(sel.day)

FourDigitYear(sel) == sel.year >= 1000 /\ sel.year <= 9999

InClaimRange(sel) == sel.month \in 0 .. 11 /\ sel.day \in 1 .. 31

Examples ==
    { [sel |-> [year |-> 2017, month |-> 2, day |-> 5],
       out |-> <<"2", "0", "1", "7", "0", "3", "0", "5">>],
      [sel |-> [year |-> 2020, month |-> 11, day |-> 31],
       out |-> <<"2", "0", "2", "0", "1", "2", "3", "1">>],
      [sel |-> [year |-> 1999, month |-> 0, day |-> 1],
       out |-> <<"1", "9", "9", "9", "0", "1", "0", "1">>],
      [sel |-> [year |-> 2005, month |-> 9, day |-> 9],
       out |-> <<"2", "0", "0", "5", "1", "0", "0", "9">>] }

----------------------------------------------------------------------------
\* Properties of the date property (checked under SpecDate)

\* C1: for every selection with month in 0..11 and day in 1..31, whatever the
\* year, the string returned by date has exactly 8 characters.
C1_LengthEight ==
    (ret.kind = "str" /\ InClaimRange(selection)) => Len(ret.val) = 8

\* C2: for every selection with month in 0..11 and day in 1..31, date returns
\* the unpadded decimal year followed by the two-digit month (counted from 1)
\* and the two-digit day; the four concrete cases give the stated strings.
C2_Format ==
    (ret.kind = "str" /\ InClaimRange(selection)) =>
        /\ ret.val = YYYYMMDD(selection)
        /\ \A e \in Examples : selection = e.sel => ret.val = e.out

C2_Witness ==
    /\ ret.kind = "str"
    /\ selection = [year |-> 2005, month |-> 9, day |-> 9]
    /\ ret.val = <<"2", "0", "0", "5", "1", "0", "0", "9">>

\* C3: with a 4-digit year, characters 5-6 of the result are "0" followed by
\* the digit of month+1 when month+1 < 10 and the two digits of month+1
\* otherwise; the 0-indexed month is never emitted unconverted.
C3_MonthPadding ==
    (ret.kind = "str" /\ FourDigitYear(selection)) =>
        /\ Len(ret.val) >= 6
        /\ SubSeq(ret.val, 5, 6) =
              (IF selection.month + 1 < 10
               THEN <<"0">> \o IntStr(selection.month + 1)
               ELSE IntStr(selection.month + 1))
        /\ SubSeq(ret.val, 5, 6) # TwoDigits(selection.month)
        /\ (selection.month = 9 => SubSeq(ret.val, 5, 6) = <<"1", "0">>)
        /\ (selection.month = 8 => SubSeq(ret.val, 5, 6) = <<"0", "9">>)

C3_Witness ==
    /\ ret.kind = "str"
    /\ FourDigitYear(selection)
    /\ selection.month = 8
    /\ SubSeq(ret.val, 5, 6) = <<"0", "9">>

\* C4: with a 4-digit year, characters 7-8 of the result are "0" followed by
\* the digit of day when day < 10 and the two digits of day otherwise,
\* whether or not the month was padded.
C4_DayPadding ==
    (ret.kind = "str" /\ FourDigitYear(selection)) =>
        /\ Len(ret.val) = 8
        /\ SubSeq(ret.val, 7, 8) =
              (IF selection.day < 10
               THEN <<"0">> \o IntStr(selection.day)
               ELSE IntStr(selection.day))

C4_Witness ==
    /\ ret.kind = "str"
    /\ FourDigitYear(selection)
    /\ selection.month = 11
    /\ selection.day = 9
    /\ SubSeq(ret.val, 5, 8) = <<"1", "2", "0", "9">>

----------------------------------------------------------------------------
\* Properties of the dialog's life cycle (checked under Spec)

\* C5: consecutive evaluations of date with no change of the selection in
\* between all return the identical string.
C5_Idempotent == calls >= 2 => prevRet = ret

C5_Witness == calls >= 2 /\ ret.kind = "str" /\ prevRet.kind = "str"

\* C6: an evaluation of date leaves the widget's selection, the dialog's
\* visibility, the bound dialog and calendar references and the builder's
\* loaded objects unchanged.
C6_PureRead ==
    [][calls' = calls + 1 =>
          UNCHANGED <<selection, visible, dialog, calendar, objects>>]_vars

C6_Witness == calls >= 1 /\ ret.kind = "str" /\ visible

\* C7: with a valid layout resource construction does not fail and ends with
\* the dialog visible, self.dialog bound to "calendar_dialog" and
\* self.calendar bound to "calendar"; the dialog is only shown once the
\* resource is loaded and both references have been looked up.
C7_Construction ==
    /\ resource = "valid" => pc # "failed"
    /\ (resource = "valid" /\ pc = "ready") =>
          (visible /\ dialog = "calendar_dialog" /\ calendar = "calendar")
    /\ visible =>
          ("calendar_dialog" \in objects /\ dialog # Unbound /\ calendar # Unbound)

C7_Witness ==
    /\ resource = "valid"
    /\ pc = "ready"
    /\ visible
    /\ dialog = "calendar_dialog"
    /\ calendar = "calendar"

\* C8: when the layout file is missing or malformed, or "calendar_dialog" or
\* "calendar" cannot be found, construction fails: no instance is left
\* constructed and shown.
C8_LoadFailureFatal ==
    resource # "valid" => (pc # "ready" /\ ~visible)

\* C9: on every instance whose construction completed, date returns a string
\* and never raises.
C9_NeverRaises ==
    (pc = "ready" /\ ret # NoCall) => ret.kind = "str"

\* C10: each evaluation of date returns the formatting of the widget's
\* selection at the moment of that evaluation, never of an earlier selection.
C10_ReadsCurrent ==
    (calls >= 1 /\ ret.kind = "str") => ret.val = YYYYMMDD(selection)

C10_Witness ==
    /\ calls >= 1
    /\ ret.kind = "str"
    /\ prevRet.kind = "str"
    /\ prevRet # ret
    /\ ret.val = YYYYMMDD(selection)

====
